---- MODULE Spec2Model ----
(***************************************************************************)
(* DistLockManager (src/mongo/db/s/dist_lock_manager.cpp): the in-process  *)
(* table of DDL locks (_inProgressMap, guarded by _mutex), the local       *)
(* acquisition lockDirectLocally, the two-phase acquisition lock() (local  *)
(* slot first, then the remote lockDirect), and the guards ScopedLock and  *)
(* ScopedDistLock whose destructors release.                               *)
(*                                                                         *)
(* Every action below is one critical section of _mutex (or one step that  *)
(* does not touch the table); the mutex is released while a caller is      *)
(* blocked in waitForConditionOrInterruptFor and while it is inside the    *)
(* remote lockDirect / unlock, so those are states of the caller.          *)
(***************************************************************************)
EXTENDS Integers, FiniteSets, Sequences, TLC

\* ---- bounds of the model ----
NumThreads == 3

\* Most moved-from ScopedDistLock objects a caller keeps alive at once.
MaxHusks == 1

Threads == 1 .. NumThreads
Names == {"db.coll", "db.other"}
Reasons == {"create", "drop"}

\* ---- program constants ----
kSingleLockAttemptTimeout == 0
kDefaultLockTimeout == 5
Timeouts == {kSingleLockAttemptTimeout, kDefaultLockTimeout}

NoName == ""
NoStatus == [code |-> "None", msg |-> <<>>]
StatusOK == [code |-> "OK", msg |-> <<>>]

\* Statuses the remote acquisition (the pure virtual lockDirect) can return.
RemoteFailures ==
    { [code |-> "LockBusy", msg |-> <<"remote">>],
      [code |-> "NetworkTimeout", msg |-> <<"remote">>] }

VARIABLES
    inProgressMap,  \* _inProgressMap: name -> NSLock, DOMAIN = the keys present
    pc,             \* where each caller is in lock() or in the life of its guard
    ns,             \* the caller's resource name (argument, then the guard's _ns)
    reason,         \* the caller's reason argument
    waitFor,        \* the caller's waitFor argument, while it waits
    status,         \* lock(): the non-OK status returned by lockDirect
    result,         \* what the finished lock() returned
    notified,       \* blocked callers with a pending notify_one wake-up
    remoteOwner,    \* name -> caller whose lockDirect succeeded and whose unlock is pending
    guard,          \* the caller's ScopedDistLock: _opCtx, _lockManager, _scopedLock._lockManager
    husks,          \* the caller's moved-from ScopedDistLock objects, still to be destroyed
    unlocks,        \* unlock calls made by the destructors of the caller's objects
    releases,       \* local releases made by the destructors of the caller's objects
    installed,      \* getDistLockManager(service): 0 (null) or the instance installed
    crashed         \* an invariant() has failed: the process is gone

vars == <<inProgressMap, pc, ns, reason, waitFor, status, result, notified, remoteOwner,
          guard, husks, unlocks, releases, installed, crashed>>

\* The guard objects of the callers and what their destructors have done.
objVars == <<guard, husks, unlocks, releases>>

\* The service context's decoration and the fate of the process.
svcVars == <<installed, crashed>>

\* ---- NSLock and the table ----

\* NSLock(reason): the member defaults of the struct.
NSLock(r) == [numWaiting |-> 1, isInProgress |-> TRUE, reason |-> r]

\* _inProgressMap.find(n) != end()
HasEntry(n) == n \in DOMAIN inProgressMap

\* Mutant of TryEmplace: the NSLock is made without the caller's reason.
TryEmplaceNoReason(map, n, r) ==
    IF n \in DOMAIN map THEN map ELSE map @@ (n :> NSLock(""))

\* _inProgressMap.try_emplace(n, make_shared<NSLock>(r))
TryEmplace(map, n, r) ==
    IF n \in DOMAIN map THEN map ELSE map @@ (n :> NSLock(r))

\* _inProgressMap.erase(n)
Erase(map, n) == [m \in (DOMAIN map) \ {n} |-> map[m]]

\* Mutant of WaitPred: the wait is taken to be satisfied whatever isInProgress says.
WaitPredIgnored(map, n) == TRUE

\* The wait predicate [nsLock]() { return !nsLock->isInProgress; }
WaitPred(map, n) == ~map[n].isInProgress

\* Callers blocked on the condition variable of n's NSLock, not yet woken.
Blocked(n) == {u \in Threads : pc[u] = "waiting" /\ ns[u] = n /\ u \notin notified}

\* The LockBusy exception of lockDirectLocally: format(ns, waitFor, reason).
LockBusyStatus(n, w, r) == [code |-> "LockBusy", msg |-> <<n, w, r>>]

\* The exception of an interrupted wait.
InterruptedStatus == [code |-> "Interrupted", msg |-> <<>>]

\* ---- _mutex ----

\* Mutant of MutexHeldPcs: the mutex taken for the table is kept during lockDirect.
MutexKeptInLockDirect == {"lockDirect"}

\* Where a caller stands between two steps while it holds _mutex: nowhere. The
\* unique_lock of lockDirectLocally is gone when it returns or throws and is
\* released by the wait while the caller sleeps; ~ScopedLock takes and drops it
\* on its own; lock() and ~ScopedDistLock never take it.
MutexHeldPcs == {}

\* stdx::unique_lock<Latch> lock(_mutex) by caller t succeeds.
MutexFree(t) == \A u \in Threads \ {t} : pc[u] \notin MutexHeldPcs

\* ---- lockDirectLocally, called first thing by lock() ----

\* Mutant of Incremented: the caller blocks without counting itself.
NotIncremented(map, n) == map

\* nsLock->numWaiting++
Incremented(map, n) == [map EXCEPT ![n].numWaiting = @ + 1]

\* Mutant of GuardFired: the throw leaves numWaiting incremented.
GuardNotFired(map, n) == map

\* Mutant of GuardFired: a caller that gives up takes the entry out of the table.
GuardFiredErases(map, n) == Erase(map, n)

\* ScopeGuard guard([&] { nsLock->numWaiting--; }) firing on a throw
GuardFired(map, n) == [map EXCEPT ![n].numWaiting = @ - 1]

\* Mutant of Claimed: the guard is not dismissed, the acquiring caller decrements too.
ClaimedDecrements(map, n, r) ==
    [map EXCEPT ![n].reason = r, ![n].isInProgress = TRUE, ![n].numWaiting = @ - 1]

\* After a satisfied wait: guard.dismiss(); nsLock->reason = reason;
\* nsLock->isInProgress = true.
Claimed(map, n, r) == [map EXCEPT ![n].reason = r, ![n].isInProgress = TRUE]

\* The outcome of waitForConditionOrInterruptFor for a caller that does not
\* block: "interrupted" (it throws), "satisfied" (true), "expired" (false), or
\* "block" when the caller has to sleep on the condition variable.
WaitOutcome(map, n, w, interrupted) ==
    IF interrupted THEN "interrupted"
    ELSE IF WaitPred(map, n) THEN "satisfied"
    ELSE IF w = kSingleLockAttemptTimeout THEN "expired"
    ELSE "block"

\* The caller's frame: the arguments of its lock() call.
SetFrame(t, n, r, w) ==
    /\ ns' = [ns EXCEPT ![t] = n]
    /\ reason' = [reason EXCEPT ![t] = r]
    /\ waitFor' = [waitFor EXCEPT ![t] = w]

\* The call is over and no guard is left: the frame is dropped.
ClearFrame(t) == SetFrame(t, NoName, "", 0)

\* lockDirectLocally returned a ScopedLock(n, r, this); lock() goes on to lockDirect.
Acquired(t, n, r) ==
    /\ pc' = [pc EXCEPT ![t] = "lockDirect"]
    /\ SetFrame(t, n, r, 0)
    /\ result' = result

\* Mutant of Threw: lock() swallows the exception and goes on to lockDirect.
ThrewSwallowed(t, st) ==
    /\ pc' = [pc EXCEPT ![t] = "lockDirect"]
    /\ ClearFrame(t)
    /\ result' = [result EXCEPT ![t] = st]

\* lockDirectLocally threw st; lock() catches it and returns ex.toStatus().
Threw(t, st) ==
    /\ pc' = [pc EXCEPT ![t] = "done"]
    /\ ClearFrame(t)
    /\ result' = [result EXCEPT ![t] = st]

\* lock(opCtx, n, r, w) from its entry through lockDirectLocally's first return,
\* throw or block; interrupted says that opCtx is already interrupted.
LockDirectLocally(t, n, r, w, interrupted) ==
    /\ pc[t] = "idle"
    /\ MutexFree(t)
    /\ UNCHANGED <<status, notified, remoteOwner, objVars, svcVars>>
    /\ IF ~HasEntry(n)
       THEN \* fast path: try_emplace, return ScopedLock
            /\ inProgressMap' = TryEmplace(inProgressMap, n, r)
            /\ Acquired(t, n, r)
       ELSE LET waiting == Incremented(inProgressMap, n)
                outcome == WaitOutcome(waiting, n, w, interrupted)
            IN  CASE outcome = "interrupted" ->
                       \* the wait throws; the ScopeGuard runs
                       /\ inProgressMap' = GuardFired(waiting, n)
                       /\ Threw(t, InterruptedStatus)
                  [] outcome = "satisfied" ->
                       /\ inProgressMap' = Claimed(waiting, n, r)
                       /\ Acquired(t, n, r)
                  [] outcome = "expired" ->
                       \* uasserted(LockBusy, ...); the ScopeGuard runs
                       /\ inProgressMap' = GuardFired(waiting, n)
                       /\ Threw(t, LockBusyStatus(n, w, r))
                  [] outcome = "block" ->
                       \* sleep on cvLocked, releasing the mutex
                       /\ inProgressMap' = waiting
                       /\ pc' = [pc EXCEPT ![t] = "waiting"]
                       /\ SetFrame(t, n, r, w)
                       /\ result' = result

\* A blocked caller is woken by notify_one and re-evaluates the predicate.
WaitWake(t) ==
    /\ pc[t] = "waiting" /\ t \in notified
    /\ MutexFree(t)
    /\ notified' = notified \ {t}
    /\ UNCHANGED <<status, remoteOwner, objVars, svcVars>>
    /\ IF WaitPred(inProgressMap, ns[t])
       THEN /\ inProgressMap' = Claimed(inProgressMap, ns[t], reason[t])
            /\ Acquired(t, ns[t], reason[t])
       ELSE UNCHANGED <<inProgressMap, pc, ns, reason, waitFor, result>>

\* A spurious wake-up of the condition variable that finds the predicate true.
SpuriousWake(t) ==
    /\ pc[t] = "waiting" /\ t \notin notified
    /\ MutexFree(t)
    /\ WaitPred(inProgressMap, ns[t])
    /\ inProgressMap' = Claimed(inProgressMap, ns[t], reason[t])
    /\ Acquired(t, ns[t], reason[t])
    /\ UNCHANGED <<status, notified, remoteOwner, objVars, svcVars>>

\* Mutant of WaitTimeout: at the deadline the caller fails without looking at
\* the predicate.
WaitTimeoutAlwaysBusy(t) ==
    /\ pc[t] = "waiting"
    /\ notified' = notified \ {t}
    /\ inProgressMap' = GuardFired(inProgressMap, ns[t])
    /\ Threw(t, LockBusyStatus(ns[t], waitFor[t], reason[t]))
    /\ UNCHANGED <<status, remoteOwner, objVars, svcVars>>

\* The deadline of the wait passes: the wait returns the predicate's value.
WaitTimeout(t) ==
    /\ pc[t] = "waiting"
    /\ MutexFree(t)
    /\ notified' = notified \ {t}
    /\ UNCHANGED <<status, remoteOwner, objVars, svcVars>>
    /\ IF WaitPred(inProgressMap, ns[t])
       THEN /\ inProgressMap' = Claimed(inProgressMap, ns[t], reason[t])
            /\ Acquired(t, ns[t], reason[t])
       ELSE /\ inProgressMap' = GuardFired(inProgressMap, ns[t])
            /\ Threw(t, LockBusyStatus(ns[t], waitFor[t], reason[t]))

\* Mutant of WaitInterrupt: the guard was dismissed before the wait, so the
\* interrupted waiter stays counted.
WaitInterruptLeaks(t) ==
    /\ pc[t] = "waiting"
    /\ notified' = notified \ {t}
    /\ inProgressMap' = inProgressMap
    /\ Threw(t, InterruptedStatus)
    /\ UNCHANGED <<status, remoteOwner, objVars, svcVars>>

\* The OperationContext of a blocked caller is interrupted: the wait throws and
\* the ScopeGuard runs.
WaitInterrupt(t) ==
    /\ pc[t] = "waiting"
    /\ MutexFree(t)
    /\ notified' = notified \ {t}
    /\ inProgressMap' = GuardFired(inProgressMap, ns[t])
    /\ Threw(t, InterruptedStatus)
    /\ UNCHANGED <<status, remoteOwner, objVars, svcVars>>

\* ---- ScopedLock::~ScopedLock ----

\* Mutant of Released: the release forgets numWaiting--.
ReleasedKeepsCount(map, n) ==
    [map EXCEPT ![n] = [numWaiting |-> @.numWaiting, isInProgress |-> FALSE,
                        reason |-> ""]]

\* numWaiting--; reason.clear(); isInProgress = false
Released(map, n) ==
    [map EXCEPT ![n] = [numWaiting |-> @.numWaiting - 1, isInProgress |-> FALSE,
                        reason |-> ""]]

\* if (numWaiting == 0) erase(_ns)
ErasedIfUnused(map, n) == IF map[n].numWaiting = 0 THEN Erase(map, n) ELSE map

\* Mutant of NotifyOne: the release wakes nobody.
NotifyNone(n) == notified' = notified

\* cvLocked.notify_one(): one blocked caller, if there is one, gets the wake-up.
NotifyOne(n) ==
    IF Blocked(n) = {} THEN notified' = notified
    ELSE \E u \in Blocked(n) : notified' = notified \cup {u}

\* The destructor of the owning ScopedLock of caller t.
ScopedLockDtor(t) ==
    /\ MutexFree(t)
    /\ inProgressMap' = ErasedIfUnused(Released(inProgressMap, ns[t]), ns[t])
    /\ NotifyOne(ns[t])

\* ---- ScopedDistLock: construction and moves ----

\* No ScopedDistLock, or one that was moved from: no context, no managers.
NoGuard == [opCtx |-> 0, lockManager |-> FALSE, scopedLock |-> FALSE]

\* ScopedDistLock(opCtx, lockName, std::move(scopedLock), lockManager): c is the
\* context, sl says whether _scopedLock owns (its _lockManager is set), lm
\* whether _lockManager is set.
NewGuard(c, sl, lm) == [opCtx |-> c, lockManager |-> lm, scopedLock |-> sl]

\* The object built by the move constructor from other.
MoveTarget(other) == NewGuard(other.opCtx, other.scopedLock, other.lockManager)

\* Mutant of MoveSource: the move constructor forgets other._lockManager = nullptr.
MoveSourceKeepsManager(other) == [other EXCEPT !.opCtx = 0, !.scopedLock = FALSE]

\* What the move constructors leave in other: other._opCtx = nullptr,
\* other._lockManager = nullptr, and ScopedLock's other._lockManager = nullptr.
MoveSource(other) == [other EXCEPT !.opCtx = 0, !.lockManager = FALSE, !.scopedLock = FALSE]

\* ~ScopedDistLock calls unlock: if (_lockManager)
DtorUnlocks(g) == g.lockManager

\* ~ScopedLock releases the local slot: if (_lockManager)
DtorReleases(g) == g.scopedLock

\* ---- lock(): the remote phase ----

\* lockDirect returns st.
LockDirectReturn(t, st) ==
    /\ pc[t] = "lockDirect"
    /\ UNCHANGED <<inProgressMap, ns, reason, waitFor, notified>>
    /\ UNCHANGED <<husks, unlocks, releases, svcVars>>
    /\ IF st = StatusOK
       THEN \* return ScopedDistLock(opCtx, name, std::move(*scopedLock), this)
            /\ pc' = [pc EXCEPT ![t] = "holdingDist"]
            /\ result' = [result EXCEPT ![t] = StatusOK]
            /\ remoteOwner' = [remoteOwner EXCEPT ![ns[t]] = t]
            /\ guard' = [guard EXCEPT ![t] = NewGuard(1, TRUE, TRUE)]
            /\ status' = status
       ELSE /\ pc' = [pc EXCEPT ![t] = "remoteFailed"]
            /\ status' = [status EXCEPT ![t] = st]
            /\ UNCHANGED <<result, remoteOwner, guard>>

\* Mutant of LockUnwind: the failed lock() returns without destroying its ScopedLock.
LockUnwindKeepsSlot(t) ==
    /\ pc[t] = "remoteFailed"
    /\ pc' = [pc EXCEPT ![t] = "done"]
    /\ result' = [result EXCEPT ![t] = status[t]]
    /\ status' = [status EXCEPT ![t] = NoStatus]
    /\ ClearFrame(t)
    /\ UNCHANGED <<inProgressMap, notified, remoteOwner, objVars, svcVars>>

\* if (!status.isOK()) return status; the optional<ScopedLock> goes out of scope.
LockUnwind(t) ==
    /\ pc[t] = "remoteFailed"
    /\ ScopedLockDtor(t)
    /\ pc' = [pc EXCEPT ![t] = "done"]
    /\ result' = [result EXCEPT ![t] = status[t]]
    /\ status' = [status EXCEPT ![t] = NoStatus]
    /\ ClearFrame(t)
    /\ UNCHANGED <<remoteOwner, objVars, svcVars>>

\* ---- ScopedDistLock::~ScopedDistLock ----

\* Mutant of DistUnlock: the local slot is released first, unlock comes after.
DistUnlockAfterRelease(t) ==
    /\ pc[t] = "holdingDist"
    /\ ScopedLockDtor(t)
    /\ pc' = [pc EXCEPT ![t] = "unlocked"]
    /\ UNCHANGED <<ns, reason, waitFor, status, result, remoteOwner, objVars, svcVars>>

\* The destructor body of the caller's guard: if (_lockManager)
\* _lockManager->unlock(_opCtx, _lockName).
DistUnlock(t) ==
    /\ pc[t] = "holdingDist"
    /\ pc' = [pc EXCEPT ![t] = "unlocked"]
    /\ IF DtorUnlocks(guard[t])
       THEN /\ remoteOwner' = [remoteOwner EXCEPT ![ns[t]] = 0]
            /\ unlocks' = [unlocks EXCEPT ![t] = @ + 1]
       ELSE UNCHANGED <<remoteOwner, unlocks>>
    /\ UNCHANGED <<inProgressMap, ns, reason, waitFor, status, result, notified>>
    /\ UNCHANGED <<guard, husks, releases, svcVars>>

\* Then the members are destroyed: _scopedLock releases the local slot. The
\* destructors' counts are forgotten with the last object of the caller.
DistLocalRelease(t) ==
    /\ pc[t] = "unlocked"
    /\ IF DtorReleases(guard[t])
       THEN ScopedLockDtor(t)
       ELSE UNCHANGED <<inProgressMap, notified>>
    /\ pc' = [pc EXCEPT ![t] = "idle"]
    /\ result' = [result EXCEPT ![t] = NoStatus]
    /\ ClearFrame(t)
    /\ guard' = [guard EXCEPT ![t] = NoGuard]
    /\ IF husks[t] = <<>>
       THEN /\ unlocks' = [unlocks EXCEPT ![t] = 0]
            /\ releases' = [releases EXCEPT ![t] = 0]
       ELSE /\ unlocks' = unlocks
            /\ releases' = [releases EXCEPT ![t] = @ + (IF DtorReleases(guard[t]) THEN 1 ELSE 0)]
    /\ UNCHANGED <<status, remoteOwner, husks, svcVars>>

\* ---- ScopedDistLock: moves, contexts, moved-from objects ----

\* The caller move-constructs a new ScopedDistLock from its guard; the old
\* object stays behind until its scope ends.
MoveConstruct(t) ==
    /\ pc[t] = "holdingDist"
    /\ Len(husks[t]) < MaxHusks
    /\ guard' = [guard EXCEPT ![t] = MoveTarget(guard[t])]
    /\ husks' = [husks EXCEPT ![t] = Append(@, MoveSource(guard[t]))]
    /\ UNCHANGED <<inProgressMap, pc, ns, reason, waitFor, status, result, notified,
                   remoteOwner, unlocks, releases, svcVars>>

\* auto unowned(std::move(*this)); unowned._opCtx = nullptr; return unowned;
MoveToAnotherThread(t) ==
    /\ pc[t] = "holdingDist"
    /\ Len(husks[t]) < MaxHusks
    /\ guard' = [guard EXCEPT ![t] = [MoveTarget(guard[t]) EXCEPT !.opCtx = 0]]
    /\ husks' = [husks EXCEPT ![t] = Append(@, MoveSource(guard[t]))]
    /\ UNCHANGED <<inProgressMap, pc, ns, reason, waitFor, status, result, notified,
                   remoteOwner, unlocks, releases, svcVars>>

\* Operation contexts: 1 is the one lock() was called with, 2 another one; 0
\* stands for nullptr.
OpCtxs == {1, 2}

\* Mutant of AssignNewOpCtx: the context is assigned without invariant(!_opCtx).
AssignNewOpCtxUnchecked(t, c) ==
    /\ pc[t] = "holdingDist"
    /\ guard' = [guard EXCEPT ![t].opCtx = c]
    /\ UNCHANGED <<inProgressMap, pc, ns, reason, waitFor, status, result, notified,
                   remoteOwner, husks, unlocks, releases, svcVars>>

\* invariant(!_opCtx); _opCtx = opCtx;
AssignNewOpCtx(t, c) ==
    /\ pc[t] = "holdingDist"
    /\ IF guard[t].opCtx # 0
       THEN /\ crashed' = TRUE
            /\ UNCHANGED <<guard, installed>>
       ELSE /\ guard' = [guard EXCEPT ![t].opCtx = c]
            /\ UNCHANGED svcVars
    /\ UNCHANGED <<inProgressMap, pc, ns, reason, waitFor, status, result, notified,
                   remoteOwner, husks, unlocks, releases>>

\* h without its i-th element.
Without(h, i) == [j \in 1..(Len(h) - 1) |-> IF j < i THEN h[j] ELSE h[j + 1]]

\* The scope of the caller's i-th moved-from object ends: ~ScopedDistLock, then
\* ~ScopedLock, each behind its if (_lockManager).
DestroyMovedFrom(t, i) ==
    /\ i \in 1..Len(husks[t])
    /\ pc[t] \in {"holdingDist", "idle"}
    /\ husks' = [husks EXCEPT ![t] = Without(@, i)]
    /\ IF DtorUnlocks(husks[t][i])
       THEN remoteOwner' = [remoteOwner EXCEPT ![ns[t]] = 0]
       ELSE remoteOwner' = remoteOwner
    /\ IF DtorReleases(husks[t][i]) /\ pc[t] = "holdingDist"
       THEN ScopedLockDtor(t)
       ELSE UNCHANGED <<inProgressMap, notified>>
    /\ IF pc[t] = "idle" /\ Len(husks[t]) = 1
       THEN /\ unlocks' = [unlocks EXCEPT ![t] = 0]
            /\ releases' = [releases EXCEPT ![t] = 0]
       ELSE /\ unlocks' = [unlocks EXCEPT ![t] = @ + (IF DtorUnlocks(husks[t][i]) THEN 1 ELSE 0)]
            /\ releases' = [releases EXCEPT ![t] = @ + (IF DtorReleases(husks[t][i]) THEN 1 ELSE 0)]
    /\ UNCHANGED <<pc, ns, reason, waitFor, status, result, guard, svcVars>>

\* ---- DistLockManager::create and DistLockManager::get ----

\* The instances a start-up sequence may try to install.
Instances == {1, 2}

\* Mutant of Create: a later create() replaces the installed instance.
CreateReplaces(i) ==
    /\ installed' = i
    /\ crashed' = crashed
    /\ UNCHANGED <<inProgressMap, pc, ns, reason, waitFor, status, result, notified,
                   remoteOwner, objVars>>

\* invariant(!getDistLockManager(service)); getDistLockManager(service) = std::move(distLockManager);
Create(i) ==
    /\ IF installed # 0
       THEN /\ crashed' = TRUE
            /\ installed' = installed
       ELSE /\ installed' = i
            /\ crashed' = crashed
    /\ UNCHANGED <<inProgressMap, pc, ns, reason, waitFor, status, result, notified,
                   remoteOwner, objVars>>

\* get(): the instance registered on the service.
Get == installed

\* The caller has looked at the failure of its call and moves on.
Return(t) ==
    /\ pc[t] = "done"
    /\ pc' = [pc EXCEPT ![t] = "idle"]
    /\ result' = [result EXCEPT ![t] = NoStatus]
    /\ UNCHANGED <<inProgressMap, ns, reason, waitFor, status, notified, remoteOwner,
                   objVars, svcVars>>

\* ---- what the claims speak about ----

\* The states of a caller in which it owns a live ScopedLock.
OwningPcs == {"lockDirect", "remoteFailed", "holdingDist", "unlocked"}

\* Callers owning a live ScopedLock for n, given where the callers are.
OwnersOf(pcs, nss, n) == {t \in Threads : pcs[t] \in OwningPcs /\ nss[t] = n}

\* Callers blocked in the wait of lockDirectLocally for n.
WaitersOf(pcs, nss, n) == {t \in Threads : pcs[t] = "waiting" /\ nss[t] = n}

Owners(n) == OwnersOf(pc, ns, n)
Waiters(n) == WaitersOf(pc, ns, n)

\* The entry of n says that the slot is taken.
Held(n) == HasEntry(n) /\ inProgressMap[n].isInProgress

\* C1: for every name at most one caller owns a live ScopedLock, the entry of an
\* owned name says so (isInProgress), and a slot marked taken has an owner: a new
\* arrival and a woken waiter never both claim it.
MutualExclusion ==
    \A n \in Names :
        /\ Cardinality(Owners(n)) <= 1
        /\ Owners(n) # {} => Held(n)
        /\ Held(n) => Owners(n) # {}

\* C1 witness: a name is owned while a waiter that was notified by the previous
\* release is still to wake up (a new arrival took the slot before it).
MutualExclusionWitness ==
    \E n \in Names, u \in Threads :
        /\ Owners(n) # {}
        /\ u \in Waiters(n)
        /\ u \in notified

\* C2: the table has an entry for a name exactly when the name is held or some
\* caller is blocked waiting for it.
TableEntryInvariant ==
    \A n \in Names : HasEntry(n) <=> (Owners(n) # {} \/ Waiters(n) # {})

\* The call lock(n, r, w) by the idle caller t, not interrupted, can complete its
\* local phase by acquiring the slot at once.
AcquiresAtOnce(t, n, r, w) ==
    /\ ENABLED (/\ LockDirectLocally(t, n, r, w, FALSE)
                /\ pc'[t] = "lockDirect"
                /\ inProgressMap'[n] = [numWaiting |-> 1, isInProgress |-> TRUE, reason |-> r])
    /\ ~ENABLED (/\ LockDirectLocally(t, n, r, w, FALSE)
                 /\ pc'[t] # "lockDirect")

\* C3: whenever nobody holds and nobody waits for a name, whatever acquisitions,
\* releases, timeouts and interruptions came before, the next acquisition of it
\* succeeds at once, also with timeout 0, and finds no waiter count left over
\* (the new holder is the only one counted).
CleanupIdempotence ==
    \A n \in Names, t \in Threads, r \in Reasons :
        (pc[t] = "idle" /\ Owners(n) = {} /\ Waiters(n) = {})
            => AcquiresAtOnce(t, n, r, kSingleLockAttemptTimeout)

\* C3 witness: a name was held, waited for and released, one waiter gave up by
\* interruption and another call failed with LockBusy; now the name is free, its
\* entry is still in the table, and a caller is about to try again.
CleanupIdempotenceWitness ==
    \E n \in Names, t, u, v \in Threads :
        /\ pc[t] = "idle"
        /\ Owners(n) = {} /\ Waiters(n) = {} /\ HasEntry(n)
        /\ pc[u] = "done" /\ result[u] = InterruptedStatus
        /\ pc[v] = "done" /\ result[v].code = "LockBusy" /\ result[v].msg[1] = n

\* The call lock(n, r, 0) by the idle caller t can only fail with LockBusy, and
\* failing changes nothing but the caller's own result: the table, the pending
\* wake-ups and every other caller are as before.
FailsBusyUnregistered(t, n, r) ==
    /\ ENABLED (/\ LockDirectLocally(t, n, r, kSingleLockAttemptTimeout, FALSE)
                /\ pc'[t] = "done"
                /\ result'[t].code = "LockBusy"
                /\ inProgressMap' = inProgressMap
                /\ notified' = notified
                /\ t \notin WaitersOf(pc', ns', n)
                /\ \A u \in Threads \ {t} : pc'[u] = pc[u] /\ ns'[u] = ns[u])
    /\ ~ENABLED (/\ LockDirectLocally(t, n, r, kSingleLockAttemptTimeout, FALSE)
                 /\ \/ pc'[t] # "done"
                    \/ result'[t].code # "LockBusy"
                    \/ inProgressMap' # inProgressMap)

\* C6: a timeout-0 acquisition of a held name fails with LockBusy in a single
\* step, leaving numWaiting, isInProgress and reason of the entry as they were
\* and the caller not registered as a waiter.
SingleAttemptFailsUnregistered ==
    \A n \in Names, t \in Threads, r \in Reasons :
        (pc[t] = "idle" /\ Held(n)) => FailsBusyUnregistered(t, n, r)

\* C6 witness: a timeout-0 call has failed with LockBusy on a name that is held
\* and also waited for.
SingleAttemptWitness ==
    \E n \in Names, t \in Threads :
        /\ pc[t] = "done"
        /\ result[t].code = "LockBusy"
        /\ result[t].msg[1] = n /\ result[t].msg[2] = kSingleLockAttemptTimeout
        /\ Held(n) /\ Waiters(n) # {}

\* The call lock(n, r, w) by the idle caller t, interrupted or not, creates the
\* entry of n marked held with reason r and returns the guard without waiting.
FastPath(t, n, r, w, i) ==
    /\ ENABLED (/\ LockDirectLocally(t, n, r, w, i)
                /\ pc'[t] = "lockDirect"
                /\ ns'[t] = n
                /\ n \in DOMAIN inProgressMap'
                /\ inProgressMap'[n].isInProgress
                /\ inProgressMap'[n].reason = r
                /\ \A m \in DOMAIN inProgressMap : inProgressMap'[m] = inProgressMap[m])
    /\ ~ENABLED (/\ LockDirectLocally(t, n, r, w, i)
                 /\ \/ pc'[t] # "lockDirect"
                    \/ n \notin DOMAIN inProgressMap'
                    \/ ~inProgressMap'[n].isInProgress
                    \/ inProgressMap'[n].reason # r)

\* C7: an acquisition of a name without a table entry creates the entry, held
\* with the caller's reason, and has its guard without waiting, for every
\* timeout (0 included).
FastPathAcquires ==
    \A n \in Names, t \in Threads, r \in Reasons, w \in Timeouts, i \in BOOLEAN :
        (pc[t] = "idle" /\ ~HasEntry(n)) => FastPath(t, n, r, w, i)

\* C7 witness: a caller holds a name through an entry that counts it alone,
\* while the other name has no entry and another caller is idle.
FastPathWitness ==
    \E n, m \in Names, t, u \in Threads :
        /\ pc[t] = "lockDirect" /\ ns[t] = n
        /\ inProgressMap[n] = NSLock(reason[t])
        /\ ~HasEntry(m) /\ pc[u] = "idle"

\* Caller t leaves lock() in this step because lockDirect failed.
Unwinds(t) == pc[t] = "remoteFailed" /\ pc'[t] = "done"

\* C4: when lockDirect fails after the local slot was acquired, lock() returns
\* exactly the status of lockDirect, and on its return the local slot has been
\* released: the caller owns nothing, the entry is no longer in progress and
\* counts one less, its reason is cleared, and the entry is gone if nobody waits,
\* so that the name can be acquired again.
PartialFailureUnwind ==
    [][\A t \in Threads :
         Unwinds(t) =>
            LET n == ns[t] IN
            /\ status[t] \in RemoteFailures
            /\ result'[t] = status[t]
            /\ OwnersOf(pc', ns', n) = {}
            /\ IF Waiters(n) = {}
               THEN n \notin DOMAIN inProgressMap'
               ELSE /\ n \in DOMAIN inProgressMap'
                    /\ inProgressMap'[n] =
                          [numWaiting |-> inProgressMap[n].numWaiting - 1,
                           isInProgress |-> FALSE, reason |-> ""]]_vars

\* C4 witness: a lock() has returned the failure of lockDirect, its name has no
\* entry any more, and another caller is free to acquire it.
PartialFailureWitness ==
    \E t, u \in Threads :
        /\ pc[t] = "done" /\ result[t] \in RemoteFailures
        /\ pc[u] = "idle"
        /\ \E n \in Names : ~HasEntry(n)

\* The failures of the local phase.
LocalFailure(st) ==
    \/ st = InterruptedStatus
    \/ st.code = "LockBusy" /\ Len(st.msg) = 3

\* C5: a caller is inside lockDirect only while it owns the local slot of its
\* name (so the remote acquisition starts after the local one), and a call whose
\* local acquisition fails returns that failure straight from where it was
\* (idle or waiting), without passing through lockDirect and without touching
\* the remote side.
LocalBeforeRemote ==
    [][\A t \in Threads :
         /\ pc'[t] = "lockDirect" =>
               /\ ns'[t] \in DOMAIN inProgressMap'
               /\ inProgressMap'[ns'[t]].isInProgress
               /\ inProgressMap'[ns'[t]].reason = reason'[t]
               /\ OwnersOf(pc', ns', ns'[t]) = {t}
         /\ (pc[t] \in {"idle", "waiting"} /\ pc'[t] \notin {"idle", "waiting"}) =>
               \/ pc'[t] = "lockDirect" /\ result'[t] = NoStatus
               \/ /\ pc'[t] = "done"
                  /\ LocalFailure(result'[t])
                  /\ remoteOwner' = remoteOwner
                  /\ status' = status
         /\ (pc'[t] = "done" /\ LocalFailure(result'[t])) =>
               pc[t] \in {"idle", "waiting", "done"}]_vars

\* C5 witness: one call has failed locally with LockBusy and another by
\* interruption while a third caller is inside lockDirect.
LocalBeforeRemoteWitness ==
    \E t, u, v \in Threads :
        /\ pc[t] = "done" /\ result[t].code = "LockBusy" /\ Len(result[t].msg) = 3
        /\ pc[u] = "done" /\ result[u] = InterruptedStatus
        /\ pc[v] = "lockDirect"

\* C8: the LockBusy failure of a local acquisition names the resource and
\* carries the reason of the holder, as the entry has it when the call fails.
LockBusyNamesHolderReason ==
    [][\A t \in Threads :
         (pc[t] \in {"idle", "waiting"} /\ pc'[t] = "done" /\ result'[t].code = "LockBusy") =>
            LET n == result'[t].msg[1] IN
            /\ n \in DOMAIN inProgressMap
            /\ result'[t].msg[3] = inProgressMap[n].reason]_vars

\* A caller blocked in the wait leaves it in this step by interruption.
Cancelled(t) == pc[t] = "waiting" /\ pc'[t] = "done" /\ result'[t] = InterruptedStatus

\* C9: an interrupted waiter gets the interruption error and no guard; its exit
\* takes exactly one off numWaiting of its entry and leaves isInProgress and
\* reason alone; the holder, the other waiters and the other entries are as
\* before, and the entry still counts the holder and the waiters that are left.
CancellationCorrectness ==
    [][\A t \in Threads :
         Cancelled(t) =>
            LET n == ns[t] IN
            /\ t \notin OwnersOf(pc', ns', n) \cup WaitersOf(pc', ns', n)
            /\ DOMAIN inProgressMap' = DOMAIN inProgressMap
            /\ inProgressMap'[n] =
                  [inProgressMap[n] EXCEPT !.numWaiting = inProgressMap[n].numWaiting - 1]
            /\ \A m \in DOMAIN inProgressMap \ {n} : inProgressMap'[m] = inProgressMap[m]
            /\ \A u \in Threads \ {t} :
                  pc'[u] = pc[u] /\ ns'[u] = ns[u] /\ reason'[u] = reason[u]
            /\ notified' = notified \ {t}
            /\ inProgressMap'[n].numWaiting =
                  Cardinality(OwnersOf(pc', ns', n)) + Cardinality(WaitersOf(pc', ns', n))]_vars

\* C9 witness: a waiter has been interrupted while its name is held and another
\* caller still waits for that name, counted with the holder.
CancellationWitness ==
    \E t, u \in Threads, n \in Names :
        /\ pc[t] = "done" /\ result[t] = InterruptedStatus
        /\ Owners(n) # {} /\ u \in Waiters(n)
        /\ inProgressMap[n].numWaiting = 2

\* C10: the remote lock of a name is held from the return of lockDirect to the
\* call of unlock, and all that time its owner also holds the local slot; the
\* local slot is given up only after unlock was called ("unlocked"), so a caller
\* inside lockDirect never finds the remote lock of its name still held by the
\* previous local holder.
ReleaseOrdering ==
    /\ \A n \in Names :
          remoteOwner[n] # 0 =>
             /\ pc[remoteOwner[n]] = "holdingDist"
             /\ ns[remoteOwner[n]] = n
             /\ Held(n)
    /\ \A t \in Threads :
          /\ pc[t] = "holdingDist" => remoteOwner[ns[t]] = t
          /\ pc[t] = "unlocked" => (remoteOwner[ns[t]] = 0 /\ Held(ns[t]))
          /\ pc[t] = "lockDirect" => remoteOwner[ns[t]] = 0

\* C10 witness: unlock has been called for a name whose local slot is still
\* held, with a waiter blocked on it.
ReleaseOrderingWitness ==
    \E t \in Threads :
        /\ pc[t] = "unlocked"
        /\ Waiters(ns[t]) # {}

\* C11: over any sequence of move constructions and moveToAnotherThread calls
\* on the guard a successful lock() returned, nothing is unlocked or released
\* while the owning guard lives (the name stays held locally and remotely by the
\* caller), every moved-from object owns nothing, so that its destruction does
\* nothing, moveToAnotherThread yields a guard without a context and changes
\* neither the table nor the remote lock, and once the owning guard is destroyed
\* unlock has been called exactly once and the local slot released exactly once,
\* whatever moved-from objects are destroyed before or after.
OwnershipTransfer ==
    \A t \in Threads :
        /\ \A i \in 1..Len(husks[t]) :
              ~DtorUnlocks(husks[t][i]) /\ ~DtorReleases(husks[t][i])
        /\ pc[t] = "holdingDist" =>
              /\ DtorUnlocks(guard[t]) /\ DtorReleases(guard[t])
              /\ unlocks[t] = 0 /\ releases[t] = 0
              /\ remoteOwner[ns[t]] = t
              /\ Held(ns[t]) /\ Owners(ns[t]) = {t}
              /\ Len(husks[t]) < MaxHusks =>
                    ENABLED (/\ MoveToAnotherThread(t)
                             /\ guard'[t].opCtx = 0
                             /\ DtorUnlocks(guard'[t]) /\ DtorReleases(guard'[t])
                             /\ UNCHANGED <<inProgressMap, remoteOwner, unlocks, releases>>)
        /\ pc[t] = "unlocked" => (unlocks[t] = 1 /\ releases[t] = 0)
        /\ (pc[t] = "idle" /\ husks[t] # <<>>) => (unlocks[t] = 1 /\ releases[t] = 1)
        /\ (pc[t] = "idle" /\ husks[t] = <<>>) => (unlocks[t] = 0 /\ releases[t] = 0)

\* C11 witness: a guard that was moved to another thread and given the other
\* context is being destroyed: unlock was called once, the slot is not yet
\* released, and a moved-from object of the caller is still alive.
OwnershipTransferWitness ==
    \E t \in Threads :
        /\ pc[t] = "unlocked"
        /\ guard[t].opCtx = 2
        /\ husks[t] # <<>>
        /\ unlocks[t] = 1

\* C12: assignNewOpCtx on a guard that has a context (fresh from lock(), or
\* attached again) can only end in the failed invariant, the guard untouched;
\* on a guard without a context (after moveToAnotherThread) it cannot fail, it
\* sets the context given and changes nothing else: the guard still owns the
\* slot and the remote lock, and table and remote lock are as before.
AssignRequiresDetached ==
    \A t \in Threads, c \in OpCtxs :
        (~crashed /\ pc[t] = "holdingDist") =>
            IF guard[t].opCtx # 0
            THEN /\ ENABLED (AssignNewOpCtx(t, c) /\ crashed' /\ guard' = guard)
                 /\ ~ENABLED (AssignNewOpCtx(t, c) /\ ~crashed')
            ELSE /\ ENABLED (/\ AssignNewOpCtx(t, c)
                             /\ guard'[t] = [guard[t] EXCEPT !.opCtx = c]
                             /\ UNCHANGED <<inProgressMap, remoteOwner, unlocks, releases>>)
                 /\ ~ENABLED (AssignNewOpCtx(t, c) /\ crashed')

\* C12 witness: a guard that moveToAnotherThread detached has been given the
\* other context and still holds its name.
AssignRequiresDetachedWitness ==
    \E t \in Threads :
        /\ pc[t] = "holdingDist"
        /\ husks[t] # <<>>
        /\ guard[t] = NewGuard(2, TRUE, TRUE)
        /\ remoteOwner[ns[t]] = t

\* C13: on a service with nothing installed, create() installs the instance
\* given and get() returns it from then on; on a service that has an instance,
\* create() can only end in the failed invariant, and get() still returns the
\* instance installed first. Callers only ever work with an installed instance.
SingletonCreation ==
    /\ (\E t \in Threads : pc[t] # "idle") => Get \in Instances
    /\ ~crashed =>
          \A i \in Instances :
              IF Get = 0
              THEN /\ ENABLED (Create(i) /\ Get' = i /\ ~crashed')
                   /\ ~ENABLED (Create(i) /\ (crashed' \/ Get' # i))
              ELSE /\ ENABLED (Create(i) /\ crashed' /\ Get' = Get)
                   /\ ~ENABLED (Create(i) /\ (~crashed' \/ Get' # Get))

\* C13 witness: a second create() has failed on a service whose callers hold no
\* guard, and get() returns the instance installed first.
SingletonCreationWitness ==
    /\ crashed
    /\ Get = 2
    /\ \A t \in Threads : pc[t] = "idle" /\ husks[t] = <<>>

\* The caller t leaves the blocking wait in this step.
LeavesWait(t) == pc[t] = "waiting" /\ pc'[t] # "waiting"

\* C14 as stated: every exit from the wait, the acquiring one as well, takes one
\* off numWaiting of the entry waited on.
WaitExitDecrements ==
    [][\A t \in Threads :
         LeavesWait(t) =>
            /\ ns[t] \in DOMAIN inProgressMap'
            /\ inProgressMap'[ns[t]].numWaiting = inProgressMap[ns[t]].numWaiting - 1]_vars

\* C14: a caller that incremented numWaiting and blocked leaves the wait in one
\* of two ways. Giving up (timed out with LockBusy, or interrupted) it takes
\* exactly one off numWaiting and leaves the rest of the entry alone. Acquiring,
\* it leaves numWaiting as it is (its increment now counts it as the holder) and
\* sets isInProgress and its reason on an entry that was free.
WaitExitAccounting ==
    [][\A t \in Threads :
         LeavesWait(t) =>
            LET n == ns[t] IN
            /\ n \in DOMAIN inProgressMap'
            /\ IF pc'[t] = "lockDirect"
               THEN /\ ~inProgressMap[n].isInProgress
                    /\ inProgressMap'[n] =
                          [numWaiting |-> inProgressMap[n].numWaiting,
                           isInProgress |-> TRUE, reason |-> reason[t]]
               ELSE /\ pc'[t] = "done"
                    /\ result'[t].code \in {"LockBusy", "Interrupted"}
                    /\ inProgressMap'[n] =
                          [inProgressMap[n] EXCEPT !.numWaiting = inProgressMap[n].numWaiting - 1]]_vars

\* C14 witness: one waiter has timed out of a blocking wait, and a notified
\* waiter is about to leave its wait with the slot, on an entry that counts it.
WaitExitAccountingWitness ==
    \E t, u \in Threads :
        /\ pc[t] = "waiting" /\ t \in notified
        /\ WaitPred(inProgressMap, ns[t])
        /\ inProgressMap[ns[t]].numWaiting = 1
        /\ pc[u] = "done"
        /\ \E r \in Reasons : result[u] = LockBusyStatus(ns[t], kDefaultLockTimeout, r)

\* The owning ScopedLock of caller t is destroyed in this step: at the end of
\* the guard's destructor, or when lock() unwinds after a failed lockDirect.
Releases(t) ==
    \/ pc[t] = "unlocked" /\ pc'[t] = "idle"
    \/ pc[t] = "remoteFailed" /\ pc'[t] = "done"

\* C15 as stated: the release clears isInProgress and reason and leaves
\* numWaiting as it found it, erasing the entry only if that count is 0.
ReleaseKeepsNumWaiting ==
    [][\A t \in Threads :
         Releases(t) =>
            LET n == ns[t] IN
            IF inProgressMap[n].numWaiting = 0
            THEN n \notin DOMAIN inProgressMap'
            ELSE /\ n \in DOMAIN inProgressMap'
                 /\ inProgressMap'[n] =
                       [numWaiting |-> inProgressMap[n].numWaiting,
                        isInProgress |-> FALSE, reason |-> ""]]_vars

\* C15: the release takes the holder's one off numWaiting; if nothing is left
\* the entry is erased, else it stays with the count that is left, isInProgress
\* false and the reason cleared. Exactly one blocked waiter of the name, if there
\* is one, gets a wake-up. The other entries are not touched.
ReleaseEffect ==
    [][\A t \in Threads :
         Releases(t) =>
            LET n == ns[t]
                left == inProgressMap[n].numWaiting - 1
            IN
            /\ IF left = 0
               THEN n \notin DOMAIN inProgressMap'
               ELSE /\ n \in DOMAIN inProgressMap'
                    /\ inProgressMap'[n] =
                          [numWaiting |-> left, isInProgress |-> FALSE, reason |-> ""]
            /\ \A m \in DOMAIN inProgressMap \ {n} :
                  m \in DOMAIN inProgressMap' /\ inProgressMap'[m] = inProgressMap[m]
            /\ IF Blocked(n) = {}
               THEN notified' = notified
               ELSE \E u \in Blocked(n) : notified' = notified \cup {u}]_vars

\* C15 witness: a name with a holder and two blocked waiters has been released:
\* the entry is still there, free, without reason, counting the two waiters, one
\* of which has the wake-up.
ReleaseEffectWitness ==
    \E n \in Names :
        /\ HasEntry(n)
        /\ inProgressMap[n] = [numWaiting |-> 2, isInProgress |-> FALSE, reason |-> ""]
        /\ Cardinality(Waiters(n)) = 2
        /\ Cardinality(Waiters(n) \cap notified) = 1

\* The callers other than u that are blocked in the wait, inside lockDirect, or
\* in the guard's destructor with unlock behind them and the release ahead.
Elsewhere(u) ==
    {v \in Threads \ {u} : pc[v] \in {"waiting", "lockDirect", "unlocked"}}

\* C16: while a caller is blocked in the wait for a name X, or is in the remote
\* acquire or the remote release for X, nobody holds the mutex: a call for
\* another name Y that is free acquires it at once, a guard of Y can be
\* destroyed, unlock and release, and a call for X itself, if X is held, gets
\* into the table and blocks as one more waiter.
MutexNotHeldAcross ==
    \A t \in Threads :
        Elsewhere(t) # {} =>
            LET Xs == {ns[v] : v \in Elsewhere(t)} IN
            /\ pc[t] = "idle" =>
                  \A n \in Names, r \in Reasons :
                      /\ (n \notin Xs /\ ~Held(n)) =>
                            ENABLED (/\ LockDirectLocally(t, n, r, kDefaultLockTimeout, FALSE)
                                     /\ pc'[t] = "lockDirect"
                                     /\ inProgressMap'[n].isInProgress)
                      /\ (n \in Xs /\ Held(n)) =>
                            ENABLED (/\ LockDirectLocally(t, n, r, kDefaultLockTimeout, FALSE)
                                     /\ pc'[t] = "waiting"
                                     /\ inProgressMap'[n].numWaiting =
                                           inProgressMap[n].numWaiting + 1)
            /\ pc[t] = "lockDirect" => ENABLED LockDirectReturn(t, StatusOK)
            /\ pc[t] = "holdingDist" => ENABLED DistUnlock(t)
            /\ pc[t] = "unlocked" =>
                  ENABLED (DistLocalRelease(t) /\ pc'[t] = "idle" /\ ~Held(ns[t])')

\* C16 witness: one caller is blocked waiting for a name whose holder is in the
\* guard's destructor past unlock, and meanwhile a third caller has acquired
\* the other name locally and is inside lockDirect.
MutexNotHeldAcrossWitness ==
    \E t, u, v \in Threads :
        /\ pc[u] = "waiting" /\ pc[v] = "unlocked" /\ ns[u] = ns[v]
        /\ pc[t] = "lockDirect" /\ ns[t] # ns[u]

\* C17: whenever the slot of a name is free and some caller is still blocked
\* in the wait for it, one of the blocked callers has a wake-up pending (and so
\* claims the slot without waiting for its timeout), also after the waiter that
\* the release notified was interrupted.
NoLostWakeup ==
    \A n \in Names :
        (HasEntry(n) /\ ~inProgressMap[n].isInProgress /\ Waiters(n) # {})
            => Waiters(n) \cap notified # {}

\* C18: between critical sections, numWaiting of every entry is 1 if the name
\* is held and 0 if not, plus the number of callers blocked in the wait for the
\* name; it is never negative.
CounterAccounting ==
    \A n \in DOMAIN inProgressMap :
        /\ inProgressMap[n].numWaiting =
              (IF inProgressMap[n].isInProgress THEN 1 ELSE 0) + Cardinality(Waiters(n))
        /\ inProgressMap[n].numWaiting >= 0

\* C18 witness: a held name with two callers blocked on it, counted 3.
CounterAccountingWitness ==
    \E n \in Names :
        /\ Held(n)
        /\ Cardinality(Waiters(n)) = 2
        /\ inProgressMap[n].numWaiting = 3

\* C19: at every step, each caller that owns a live ScopedLock finds the entry
\* of its name in the table with isInProgress set, so the find of its destructor
\* cannot miss; and unless the step is that caller's own release, the entry is
\* there afterwards too, still in progress and with the same reason, whichever
\* acquisition, timeout, interruption or release of another caller the step is.
ReleaseFindsEntry ==
    [][\A t \in Threads :
         pc[t] \in OwningPcs =>
            LET n == ns[t] IN
            /\ n \in DOMAIN inProgressMap
            /\ inProgressMap[n].isInProgress
            /\ inProgressMap[n].reason = reason[t]
            /\ ~Releases(t) =>
                  /\ n \in DOMAIN inProgressMap'
                  /\ inProgressMap'[n].isInProgress
                  /\ inProgressMap'[n].reason = reason[t]]_vars

\* C19 witness: the guard's destructor is between unlock and the release of
\* its name, a single-attempt call for that name has failed with LockBusy, and a
\* third caller is blocked waiting for it.
ReleaseFindsEntryWitness ==
    \E t, u, v \in Threads :
        /\ pc[t] = "unlocked"
        /\ pc[u] = "done"
        /\ \E r \in Reasons : result[u] = LockBusyStatus(ns[t], kSingleLockAttemptTimeout, r)
        /\ pc[v] = "waiting" /\ ns[v] = ns[t]

\* The local LockBusy failures: the messages lockDirectLocally formats.
LocalLockBusy == {LockBusyStatus(n, w, r) : n \in Names, w \in Timeouts, r \in Reasons}

\* C20: a local acquisition cannot fail with LockBusy while the slot of its
\* name is not held. A call for a name whose slot is free, with any timeout, 0
\* included, and also when the entry is only there because others wait, claims
\* the slot; a blocked caller whose deadline passes while the slot is free claims
\* it too.
LockBusyOnlyWhenHeld ==
    \A t \in Threads :
        /\ pc[t] = "idle" =>
              \A n \in Names, r \in Reasons, w \in Timeouts :
                  ~Held(n) =>
                     /\ ENABLED (/\ LockDirectLocally(t, n, r, w, FALSE)
                                 /\ pc'[t] = "lockDirect"
                                 /\ inProgressMap'[n].isInProgress
                                 /\ inProgressMap'[n].reason = r)
                     /\ \A i \in BOOLEAN :
                           ~ENABLED (/\ LockDirectLocally(t, n, r, w, i)
                                     /\ result'[t] \in LocalLockBusy)
        /\ (pc[t] = "waiting" /\ ~Held(ns[t])) =>
              /\ ENABLED (/\ WaitTimeout(t)
                          /\ pc'[t] = "lockDirect"
                          /\ inProgressMap'[ns[t]].isInProgress)
              /\ ~ENABLED (WaitTimeout(t) /\ result'[t] \in LocalLockBusy)

\* C20 witness: the slot of a name is free and its entry is only there because
\* a caller is blocked on it, not woken, its deadline still to come; another
\* caller is about to call lock for the name.
LockBusyOnlyWhenHeldWitness ==
    \E n \in Names, t \in Threads :
        /\ HasEntry(n) /\ ~Held(n)
        /\ Cardinality(Waiters(n)) = 1
        /\ Waiters(n) \cap notified = {}
        /\ pc[t] = "idle"

Init ==
    /\ inProgressMap = <<>>
    /\ pc = [t \in Threads |-> "idle"]
    /\ ns = [t \in Threads |-> NoName]
    /\ reason = [t \in Threads |-> ""]
    /\ waitFor = [t \in Threads |-> 0]
    /\ status = [t \in Threads |-> NoStatus]
    /\ result = [t \in Threads |-> NoStatus]
    /\ notified = {}
    /\ remoteOwner = [n \in Names |-> 0]
    /\ guard = [t \in Threads |-> NoGuard]
    /\ husks = [t \in Threads |-> <<>>]
    /\ unlocks = [t \in Threads |-> 0]
    /\ releases = [t \in Threads |-> 0]
    /\ installed = 1
    /\ crashed = FALSE

Next ==
    \/ \E t \in Threads, n \in Names, r \in Reasons, w \in Timeouts, i \in BOOLEAN :
          LockDirectLocally(t, n, r, w, i)
    \/ \E t \in Threads : WaitWake(t)
    \/ \E t \in Threads : SpuriousWake(t)
    \/ \E t \in Threads : WaitTimeout(t)
    \/ \E t \in Threads : WaitInterrupt(t)
    \/ \E t \in Threads, st \in {StatusOK} \cup RemoteFailures : LockDirectReturn(t, st)
    \/ \E t \in Threads : LockUnwind(t)
    \/ \E t \in Threads : DistUnlock(t)
    \/ \E t \in Threads : DistLocalRelease(t)
    \/ \E t \in Threads : Return(t)

Spec == Init /\ [][Next]_vars

\* ---- start-up and the life of the guard objects ----

\* The service before start-up: nothing installed yet.
StartupInit ==
    /\ inProgressMap = <<>>
    /\ pc = [t \in Threads |-> "idle"]
    /\ ns = [t \in Threads |-> NoName]
    /\ reason = [t \in Threads |-> ""]
    /\ waitFor = [t \in Threads |-> 0]
    /\ status = [t \in Threads |-> NoStatus]
    /\ result = [t \in Threads |-> NoStatus]
    /\ notified = {}
    /\ remoteOwner = [n \in Names |-> 0]
    /\ guard = [t \in Threads |-> NoGuard]
    /\ husks = [t \in Threads |-> <<>>]
    /\ unlocks = [t \in Threads |-> 0]
    /\ releases = [t \in Threads |-> 0]
    /\ installed = 0
    /\ crashed = FALSE

\* Callers reach the manager through get(), and only while the process lives.
Running == ~crashed /\ Get # 0

\* Start-up, uninterrupted single-attempt lock calls (all for one reason) whose
\* remote phase succeeds, and what callers do with the guards they get.
GuardNext ==
    \/ \E i \in Instances : ~crashed /\ Create(i)
    \/ \E t \in Threads, n \in Names, r \in {"create"} :
          Running /\ husks[t] = <<>>
                  /\ LockDirectLocally(t, n, r, kSingleLockAttemptTimeout, FALSE)
    \/ \E t \in Threads : Running /\ LockDirectReturn(t, StatusOK)
    \/ \E t \in Threads : Running /\ MoveConstruct(t)
    \/ \E t \in Threads : Running /\ MoveToAnotherThread(t)
    \/ \E t \in Threads, c \in OpCtxs : Running /\ AssignNewOpCtx(t, c)
    \/ \E t \in Threads, i \in 1..MaxHusks : Running /\ DestroyMovedFrom(t, i)
    \/ \E t \in Threads : Running /\ DistUnlock(t)
    \/ \E t \in Threads : Running /\ DistLocalRelease(t)
    \/ \E t \in Threads : Running /\ Return(t)

GuardSpec == StartupInit /\ [][GuardNext]_vars
====
